---- MODULE Spec2Model ----
(***************************************************************************)
(* Stress-balance models of iceutils/sim/models.py: IceStream and          *)
(* LateralIceStream.  Each instance owns a residual buffer F (length N+2)  *)
(* and a Jacobian buffer J ((N+2) x N) that every evaluation overwrites.   *)
(*                                                                         *)
(* Numbers.  The source computes in float64.  Here a real x is carried as  *)
(* the integer x * One (decimal fixed point, One parts per unit).  Sums    *)
(* and differences are exact; a product, a quotient and a fractional power *)
(* are rounded toward zero to the lattice, where float64 rounds to its own *)
(* lattice.  A positive literal below the resolution (nu_eps = 1.0e-8) is  *)
(* carried as one quantum, so that it keeps its role: the denominator it   *)
(* regularises never vanishes.  Division by zero in a negative power gives *)
(* numpy's inf; matrix entries of the Jacobian are therefore extended      *)
(* numbers [k, v] with k in {"fin", "inf", "nan"}.                          *)
(***************************************************************************)
EXTENDS Integers, Sequences, FiniteSets, TLC

(***************************************************************************)
(* Fixed-point arithmetic                                                  *)
(***************************************************************************)
One == 100

Abs(a) == IF a < 0 THEN -a ELSE a

Sgn(a) == IF a < 0 THEN -1 ELSE IF a > 0 THEN 1 ELSE 0

\* a / b rounded toward zero (b # 0)
QDiv(a, b) == Sgn(a) * Sgn(b) * (Abs(a) \div Abs(b))

\* float product and quotient of two lattice values
FMul(a, b) == QDiv(a * b, One)

FDiv(a, b) == QDiv(a * One, b)

\* the decimal literal num/den of the source text
Lit(num, den) ==
    LET v == QDiv(num * One, den)
    IN  IF v = 0 /\ num # 0 THEN Sgn(num) * Sgn(den) ELSE v

RECURSIVE IPow(_, _)
IPow(b, e) ==
    IF e = 0 THEN 1
    ELSE IF e = 1 THEN b
    ELSE IF e = 2 THEN b * b
    ELSE IF e = 3 THEN b * b * b
    ELSE b * IPow(b, e - 1)

\* largest r whose q-th power still fits the integer width (q in 2..3)
RootCap(q) == IF q = 2 THEN 46340 ELSE 1290

\* whether r is at most the q-th root of y
RootFits(y, q, r) == r <= RootCap(q) /\ IPow(r, q) <= y

\* base plus the largest digit d in 0..5 of weight unit that still fits
RootDigit(y, q, base, unit) ==
    base + unit * (CHOOSE d \in 0..5 :
                      /\ RootFits(y, q, base + d * unit)
                      /\ (d = 5 \/ ~RootFits(y, q, base + (d + 1) * unit)))

\* floor of the q-th root of the integer y >= 0: six digits in base 6
IRoot(y, q) ==
    IF q = 1 THEN y
    ELSE RootDigit(y, q,
           RootDigit(y, q,
             RootDigit(y, q,
               RootDigit(y, q,
                 RootDigit(y, q,
                   RootDigit(y, q, 0, 7776), 1296), 216), 36), 6), 1)

\* x ** (p / q) for a lattice value x >= 0 and integers p >= 0, q >= 1
\* (numpy: 0 ** 0 = 1)
RECURSIVE FPow(_, _, _)
FPow(x, p, q) ==
    IF p = 0 THEN One
    ELSE IF p >= q THEN FMul(x, FPow(x, p - q, q))
    ELSE IRoot(IPow(x, p) * IPow(One, q - p), q)

\* the array f with every entry computed, once
Arr(f) == f \o <<>>

(***************************************************************************)
(* Extended numbers: the float64 values a Jacobian entry can take          *)
(***************************************************************************)
Fin(v) == [k |-> "fin", v |-> v]

Inf(s) == [k |-> "inf", v |-> s]

NaN == [k |-> "nan", v |-> 0]

IsFinite(a) == a.k = "fin"

\* coefficient c (finite lattice value) times extended a
XScale(c, a) ==
    IF a.k = "fin" THEN Fin(FMul(c, a.v))
    ELSE IF a.k = "inf" /\ c # 0 THEN Inf(Sgn(c) * a.v)
    ELSE NaN

\* a - b
XSub(a, b) ==
    IF a.k = "nan" \/ b.k = "nan" THEN NaN
    ELSE IF a.k = "fin" /\ b.k = "fin" THEN Fin(a.v - b.v)
    ELSE IF a.k = "fin" THEN Inf(-b.v)
    ELSE IF b.k = "fin" THEN a
    ELSE IF a.v = -b.v THEN a
    ELSE NaN

\* x ** (p / q) for x >= 0 and any integer p: a negative power of 0.0 is inf
XPow(x, p, q) ==
    IF p >= 0 THEN Fin(FPow(x, p, q))
    ELSE IF FPow(x, -p, q) = 0 THEN Inf(1)
    ELSE Fin(FDiv(One, FPow(x, -p, q)))

(***************************************************************************)
(* The grid profile (external collaborator) and the constructor arguments *)
(***************************************************************************)
N == 3

Nodes == 1..N

\* profile.D: centred differences inside, one-sided at both ends (dx = 0.5)
DEntry(i, j) ==
    IF i = 1 THEN (IF j = 1 THEN Lit(-2, 1) ELSE IF j = 2 THEN Lit(2, 1) ELSE 0)
    ELSE IF i = N THEN (IF j = N - 1 THEN Lit(-2, 1) ELSE IF j = N THEN Lit(2, 1) ELSE 0)
    ELSE IF j = i + 1 THEN Lit(1, 1)
    ELSE IF j = i - 1 THEN Lit(-1, 1)
    ELSE 0

D == Arr([i \in Nodes |-> Arr([j \in Nodes |-> DEntry(i, j)])])

\* profile.h, profile.alpha
h == Arr([i \in Nodes |-> IF i = 1 THEN Lit(2, 1) ELSE Lit(1, 1)])

alpha == Arr([i \in Nodes |-> Lit(1, 100)])

rho_ice == Lit(917, 1)

rho_water == Lit(1000, 1)

\* profile.depth: the bed depths a profile may carry; the second puts the
\* downstream nodes below flotation
DepthProfiles ==
    { Arr([i \in Nodes |-> Lit(1, 2)]),
      Arr([i \in Nodes |-> IF i = 1 THEN 0 ELSE Lit(2, 1)]) }

\* constructor arguments
A == Lit(1, 1)

calving_force == Lit(1, 1)

B2 == Lit(6, 1)

W == Lit(2, 1)

As == Lit(100, 1)

mu == Lit(1, 1)

n == 3

m == 3

\* attributes set by __init__
g == Lit(980665, 100000)

boundary_value_scale == Lit(500, 1)

nu_eps == Lit(1, 100000000)

fs == calving_force

\* A ** (-1 / n)
InvRootA == FDiv(One, FPow(A, 1, n))

\* the scale argument's default, 1.0e-2
DefaultScale == Lit(1, 100)

\* the step argument's default, 1.0e-7
DefaultStep == Lit(1, 10000000)

(***************************************************************************)
(* numpy helpers                                                           *)
(***************************************************************************)
RECURSIVE SumTo(_, _)
SumTo(f, k) == IF k = 0 THEN 0 ELSE f[k] + SumTo(f, k - 1)

\* np.dot(M, v) for aligned shapes
MatVec(M, v) ==
    Arr([i \in 1..Len(M) |-> SumTo(Arr([j \in 1..Len(v) |-> FMul(M[i][j], v[j])]), Len(v))])

\* a product that pads or cuts v to the width of M instead of raising
NpDotPadded(M, v) ==
    [ok |-> TRUE,
     val |-> MatVec(M, Arr([j \in 1..Len(M[1]) |-> IF j <= Len(v) THEN v[j] ELSE 0]))]

\* np.dot(M, v): a ValueError when the shapes are not aligned
NpDot(M, v) ==
    IF Len(M[1]) # Len(v) THEN [ok |-> FALSE, val |-> <<>>]
    ELSE [ok |-> TRUE, val |-> MatVec(M, v)]

\* np.dot(P, Q) for N x N matrices
MatMul(P, Q) ==
    Arr([i \in Nodes |-> Arr([j \in Nodes |->
        SumTo(Arr([k \in Nodes |-> FMul(P[i][k], Q[k][j])]), N)])])

\* a sign factor that forgets the sign
CopySignLost(x) == One

\* np.copysign(1.0, x)
CopySign(x) == IF x < 0 THEN -One ELSE One

gradient_product(b, M) == Arr([i \in Nodes |-> Arr([j \in Nodes |-> FMul(M[i][j], b[i])])])

\* self.F[:-2] += vals: the interior accumulates over the calls
SetInteriorAdding(buf, vals) ==
    Arr([k \in 1..Len(buf) |-> IF k <= Len(buf) - 2 THEN buf[k] + vals[k] ELSE buf[k]])

\* self.F[:-2] = vals
SetInterior(buf, vals) ==
    Arr([k \in 1..Len(buf) |-> IF k <= Len(buf) - 2 THEN vals[k] ELSE buf[k]])

\* self.F[pos] = val
SetAt(buf, pos, val) == [buf EXCEPT ![pos] = val]

(***************************************************************************)
(* Terms shared by both models                                             *)
(***************************************************************************)
\* nu = A**(-1/n) / (|Du|**((n-1)/n) + nu_eps)
Viscosity(Du) ==
    Arr([i \in Nodes |-> FDiv(InvRootA, FPow(Abs(Du[i]), n - 1, n) + nu_eps)])

\* membrane = scale * 2.0 * np.dot(D, h * nu * Du)
Membrane(Du, scale) ==
    LET nu == Viscosity(Du)
        flux == Arr([i \in Nodes |-> FMul(FMul(h[i], nu[i]), Du[i])])
        div == MatVec(D, flux)
    IN  Arr([i \in Nodes |-> FMul(FMul(scale, Lit(2, 1)), div[i])])

\* Td = scale * rho_ice * g * h * alpha
Driving(scale) ==
    Arr([i \in Nodes |-> FMul(FMul(FMul(FMul(scale, rho_ice), g), h[i]), alpha[i])])

\* self.F[-2] = boundary_value_scale * Du[0]
BoundaryUpstream(Du) == FMul(boundary_value_scale, Du[1])

\* a calving condition without the calving force
BoundaryCalvingNoForce(Du) == FMul(boundary_value_scale, Du[Len(Du)])

\* self.F[-1] = boundary_value_scale * (Du[-1] - self.fs)
BoundaryCalving(Du) == FMul(boundary_value_scale, Du[Len(Du)] - fs)

(***************************************************************************)
(* IceStream.compute_pde_values                                            *)
(***************************************************************************)
\* drag = scale * B2 * u
IceDrag(u, scale) == Arr([i \in Nodes |-> FMul(FMul(scale, B2), u[i])])

\* membrane - drag + Td
IceInterior(u, Du, scale) ==
    LET membrane == Membrane(Du, scale)
        drag == IceDrag(u, scale)
        Td == Driving(scale)
    IN  Arr([i \in Nodes |-> membrane[i] - drag[i] + Td[i]])

(***************************************************************************)
(* LateralIceStream.__init__ and compute_pde_values                        *)
(***************************************************************************)
\* the flotation floor of line 160
HfFloor == Lit(1, 100)

\* profile.h - rho_water / rho_ice * profile.depth
HfRaw(depth) == Arr([i \in Nodes |-> h[i] - FMul(FDiv(rho_water, rho_ice), depth[i])])

\* a constructor that keeps the raw flotation height
FloorHfSkipped(raw) == raw

\* self.Hf[self.Hf < 0.01] = 0.01
FloorHf(raw) == Arr([i \in Nodes |-> IF raw[i] < HfFloor THEN HfFloor ELSE raw[i]])

HfInit(depth) == FloorHf(HfRaw(depth))

\* basal_drag = scale * usign * mu * As * (Hf * absu)**(1 / m)
BasalDrag(Hf, u, scale) ==
    Arr([i \in Nodes |->
        FMul(FMul(FMul(FMul(scale, CopySign(u[i])), mu), As),
             FPow(FMul(Hf[i], Abs(u[i])), 1, m))])

\* lateral_drag = scale * 2 * usign * h / W * (5 * absu / (A * W))**(1 / n)
LateralDrag(u, scale) ==
    Arr([i \in Nodes |->
        FMul(FDiv(FMul(FMul(FMul(scale, Lit(2, 1)), CopySign(u[i])), h[i]), W),
             FPow(FDiv(FMul(Lit(5, 1), Abs(u[i])), FMul(A, W)), 1, n))])

\* the dictionary returned when return_components is set
Components(Hf, u, Du, scale) ==
    [membrane |-> Membrane(Du, scale),
     basal |-> BasalDrag(Hf, u, scale),
     lateral |-> LateralDrag(u, scale),
     driving |-> Driving(scale)]

\* membrane -= (basal_drag + lateral_drag); membrane + Td
LateralInterior(Hf, u, Du, scale) ==
    LET c == Components(Hf, u, Du, scale)
        combined == Arr([i \in Nodes |-> c.membrane[i] - (c.basal[i] + c.lateral[i])])
    IN  Arr([i \in Nodes |-> combined[i] + c.driving[i]])

(***************************************************************************)
(* compute_jacobian                                                        *)
(***************************************************************************)
\* K = 2.0 * profile.D * A**(-1 / n)
K == Arr([i \in Nodes |-> Arr([j \in Nodes |-> FMul(FMul(Lit(2, 1), D[i][j]), InvRootA)])])

MatAdd(P, Q) == Arr([i \in Nodes |-> Arr([j \in Nodes |-> P[i][j] + Q[i][j]])])

\* scale * np.dot(self.K, J1 + J2)
JacMembrane(Du, scale) ==
    LET nu == Arr([i \in Nodes |-> FDiv(One, FPow(Abs(Du[i]), n - 1, n) + nu_eps)])
        nu_hat == Arr([i \in Nodes |->
                     FDiv(FMul(FDiv(Lit(n - 1, 1), Lit(n, 1)), Du[i]),
                          FPow(Abs(Du[i]), n + 1, n) + nu_eps)])
        Gp == gradient_product(
                  Arr([i \in Nodes |-> FMul(FMul(-One, FMul(nu[i], nu[i])), nu_hat[i])]), D)
        J1 == gradient_product(Arr([i \in Nodes |-> FMul(h[i], Du[i])]), Gp)
        J2 == gradient_product(Arr([i \in Nodes |-> FMul(h[i], nu[i])]), D)
        KJ == MatMul(K, MatAdd(J1, J2))
    IN  Arr([i \in Nodes |-> Arr([j \in Nodes |-> FMul(scale, KJ[i][j])])])

\* J_drag = scale * B2 * np.eye(u.size)
IceJacDrag(scale) ==
    Arr([i \in Nodes |-> Arr([j \in Nodes |-> IF i = j THEN FMul(FMul(scale, B2), One) ELSE 0])])

\* IceStream: J_membrane - J_drag
IceJacInterior(Du, scale) ==
    LET Jm == JacMembrane(Du, scale)
        Jd == IceJacDrag(scale)
    IN  Arr([i \in Nodes |-> Arr([j \in Nodes |-> Fin(Jm[i][j] - Jd[i][j])])])

\* J_basal = scale*mu*usign*As*(Hf*usign) / m * (Hf*absu)**((1 - m) / m)
JacBasal(Hf, u, scale) ==
    Arr([i \in Nodes |->
        XScale(FDiv(FMul(FMul(FMul(FMul(scale, mu), CopySign(u[i])), As),
                         FMul(Hf[i], CopySign(u[i]))),
                    Lit(m, 1)),
               XPow(FMul(Hf[i], Abs(u[i])), 1 - m, m))])

\* J_lateral = scale*usign*10*h*usign / (n*A*W**2) * (5*absu/(A*W))**((1 - n) / n)
JacLateral(u, scale) ==
    Arr([i \in Nodes |->
        XScale(FDiv(FMul(FMul(FMul(FMul(scale, CopySign(u[i])), Lit(10, 1)), h[i]),
                         CopySign(u[i])),
                    FMul(FMul(Lit(n, 1), A), FMul(W, W))),
               XPow(FDiv(FMul(Lit(5, 1), Abs(u[i])), FMul(A, W)), 1 - n, n))])

\* LateralIceStream: Jpde with both drag terms subtracted from its diagonal
LateralJacInterior(Hf, u, Du, scale) ==
    LET Jpde == JacMembrane(Du, scale)
        Jb == JacBasal(Hf, u, scale)
        Jl == JacLateral(u, scale)
    IN  Arr([i \in Nodes |-> Arr([j \in Nodes |->
            IF i = j THEN XSub(XSub(Fin(Jpde[i][i]), Jb[i]), Jl[i])
                     ELSE Fin(Jpde[i][j])])])

\* self.J[-2,:] and self.J[-1,:]
JacBoundaryRow(i) == Arr([j \in Nodes |-> Fin(FMul(boundary_value_scale, D[i][j]))])

\* self.J[:-2,:] = rows; self.J[-2,:] = ...; self.J[-1,:] = ...
FillJacobian(buf, rows) ==
    Arr([i \in 1..Len(buf) |->
        IF i <= Len(buf) - 2 THEN rows[i]
        ELSE IF i = Len(buf) - 1 THEN JacBoundaryRow(1)
        ELSE JacBoundaryRow(N)])

(***************************************************************************)
(* State                                                                   *)
(***************************************************************************)
VARIABLES
    kind,    \* the class the instances are built from
    depth,   \* profile.depth
    Hf,      \* self.Hf (LateralIceStream only)
    F,       \* self.F, by buffer
    J,       \* self.J, by buffer
    heap,    \* arrays allocated by the calls for their callers
    held,    \* what the caller was handed, call by call
    drv,     \* the Newton driver: position, current guess, iteration, probes
    shared,  \* whether the concurrent workers share one instance
    thr      \* the concurrent workers inside compute_pde_values

vars == <<kind, depth, Hf, F, J, heap, held, drv, shared, thr>>

Instances == 1..2

Kinds == {"IceStream", "LateralIceStream"}

\* buffers allocated once for the class, whatever the instance
BufferOfClass(t) == 1

\* the buffers an instance allocates for itself in __init__
BufferOf(t) == t

ZeroF == Arr([k \in 1..(N + 2) |-> 0])

ZeroJ == Arr([i \in 1..(N + 2) |-> Arr([j \in Nodes |-> Fin(0)])])

\* velocity guesses handed to the calls
GuessA == Arr([i \in Nodes |-> Lit(i - 1, 1)])

GuessB == Arr([i \in Nodes |-> IF i = 1 THEN Lit(1, 1) ELSE IF i = 2 THEN Lit(-1, 1) ELSE Lit(2, 1)])

Neg(u) == Arr([i \in 1..Len(u) |-> -u[i]])

TooShort == Arr([i \in 1..1 |-> Lit(1, 1)])

TooLong == Arr([i \in 1..(N + 1) |-> Lit(1, 1)])

ValidGuesses == {GuessA, Neg(GuessA), GuessB}

\* the guesses the single-instance runs draw from
Guesses == {GuessA, Neg(GuessA), TooShort, TooLong}

Scales == {DefaultScale, Lit(1, 1)}

\* numpy broadcasting of a vector against the length-N fields
Broadcasts(u) == Len(u) = N \/ Len(u) = 1

Broadcast(u) == IF Len(u) = 1 THEN Arr([i \in Nodes |-> u[1]]) ELSE u

NoRef == [space |-> "none", idx |-> 0]

Deref(ref) ==
    IF ref.space = "F" THEN F[ref.idx]
    ELSE IF ref.space = "J" THEN J[ref.idx]
    ELSE heap[ref.idx]

\* return self.F: the caller gets the instance's buffer itself
ResidualReturnAliased(t, k) == [space |-> "F", idx |-> t]

\* return self.F.copy(): the caller gets the fresh array at heap slot k
ResidualReturn(t, k) == [space |-> "heap", idx |-> k]

\* return self.J.copy(): the caller gets a fresh array at heap slot k
JacobianReturnCopied(t, k) == [space |-> "heap", idx |-> k]

\* return self.J: the caller gets the instance's buffer itself
JacobianReturn(t, k) == [space |-> "J", idx |-> BufferOf(t)]

\* a dictionary built after the in-place subtraction
ComponentsReturnLate(c, combined) == [c EXCEPT !.membrane = combined]

\* the dictionary is built from the arrays as they are before the in-place
\* membrane -= (basal_drag + lateral_drag)
ComponentsReturn(c, combined) == c

Raised(t, op, u, scale) ==
    [inst |-> t, op |-> op, u |-> u, scale |-> scale, ok |-> FALSE,
     ref |-> NoRef, snap |-> <<>>]

Returned(t, op, u, scale, ref, val) ==
    [inst |-> t, op |-> op, u |-> u, scale |-> scale, ok |-> TRUE,
     ref |-> ref, snap |-> val]

\* the interior entries either class computes
Interior(u, Du, scale) ==
    IF kind = "IceStream" THEN IceInterior(u, Du, scale)
    ELSE LateralInterior(Hf, u, Du, scale)

\* the statements that fill self.F
PdeBuffer(buf, u, Du, scale) ==
    SetAt(SetAt(SetInterior(buf, Interior(u, Du, scale)),
                N + 1, BoundaryUpstream(Du)),
          N + 2, BoundaryCalving(Du))

JacInterior(u, Du, scale) ==
    IF kind = "IceStream" THEN IceJacInterior(Du, scale)
    ELSE LateralJacInterior(Hf, u, Du, scale)

\* whether the call gets past np.dot and the element-wise arithmetic
Accepts(u) == NpDot(D, u).ok /\ Broadcasts(u)

(***************************************************************************)
(* The calls                                                               *)
(***************************************************************************)
\* compute_pde_values(u, scale) on instance t
CallPde(t, u, scale) ==
    IF ~Accepts(u)
    THEN /\ held' = Append(held, Raised(t, "pde", u, scale))
         /\ UNCHANGED <<F, J, heap>>
    ELSE LET b == BufferOf(t)
             ref == ResidualReturn(t, Len(heap) + 1)
         IN  /\ F' = [F EXCEPT ![b] = PdeBuffer(F[b], Broadcast(u), NpDot(D, u).val, scale)]
             /\ heap' = IF ref.space = "heap" THEN Append(heap, F'[b]) ELSE heap
             /\ held' = Append(held, Returned(t, "pde", u, scale, ref, F'[b]))
             /\ UNCHANGED J

\* compute_pde_values(u, scale, return_components=True) on instance t
CallComponents(t, u, scale) ==
    IF ~Accepts(u)
    THEN /\ held' = Append(held, Raised(t, "components", u, scale))
         /\ UNCHANGED <<F, J, heap>>
    ELSE LET Du == NpDot(D, u).val
             c == Components(Hf, Broadcast(u), Du, scale)
             combined == Arr([i \in Nodes |-> c.membrane[i] - (c.basal[i] + c.lateral[i])])
         IN  /\ held' = Append(held, Returned(t, "components", u, scale, NoRef,
                                              ComponentsReturn(c, combined)))
             /\ UNCHANGED <<F, J, heap>>

\* compute_jacobian(u, scale) on instance t
CallJacobian(t, u, scale) ==
    IF ~Accepts(u)
    THEN /\ held' = Append(held, Raised(t, "jacobian", u, scale))
         /\ UNCHANGED <<F, J, heap>>
    ELSE LET b == BufferOf(t)
             ref == JacobianReturn(t, Len(heap) + 1)
         IN  /\ J' = [J EXCEPT ![b] =
                        FillJacobian(J[b], JacInterior(Broadcast(u), NpDot(D, u).val, scale))]
             /\ heap' = IF ref.space = "heap" THEN Append(heap, J'[b]) ELSE heap
             /\ held' = Append(held, Returned(t, "jacobian", u, scale, ref, J'[b]))
             /\ UNCHANGED F

\* u with step added to entry j
Perturb(u, j, step) == [u EXCEPT ![j] = u[j] + step]

\* the value compute_pde_values(u) returns, whatever the buffer held before
Residual(u, scale) == PdeBuffer(ZeroF, u, MatVec(D, u), scale)

\* central differences of compute_pde_values around u
CentralDifferences(u, step) ==
    LET plus == Arr([j \in Nodes |-> Residual(Perturb(u, j, step), DefaultScale)])
        minus == Arr([j \in Nodes |-> Residual(Perturb(u, j, -step), DefaultScale)])
    IN  Arr([i \in 1..(N + 2) |-> Arr([j \in Nodes |->
            FDiv(plus[j][i] - minus[j][i], 2 * step)])])

\* compute_numerical_jacobian(u) on instance t: every probe is a
\* compute_pde_values call, the last one at u - step in the last entry
CallNumericalJacobian(t, u) ==
    IF ~Accepts(u) \/ Len(u) # N
    THEN /\ held' = Append(held, Raised(t, "numerical", u, DefaultScale))
         /\ UNCHANGED <<F, J, heap>>
    ELSE LET b == BufferOf(t)
             last == Perturb(u, N, -DefaultStep)
         IN  /\ F' = [F EXCEPT ![b] = PdeBuffer(F[b], last, MatVec(D, last), DefaultScale)]
             /\ heap' = Append(heap, CentralDifferences(u, DefaultStep))
             /\ held' = Append(held, Returned(t, "numerical", u, DefaultScale,
                                              [space |-> "heap", idx |-> Len(heap')],
                                              heap'[Len(heap')]))
             /\ UNCHANGED J

(***************************************************************************)
(* Construction                                                            *)
(***************************************************************************)
\* __init__ of either class on a profile with the given bed depths
Construct(c, d) ==
    /\ kind = c
    /\ depth = d
    /\ Hf = IF c = "LateralIceStream" THEN HfInit(d) ELSE <<>>
    /\ F = [b \in Instances |-> ZeroF]
    /\ J = [b \in Instances |-> ZeroJ]
    /\ heap = <<>>
    /\ held = <<>>

Idle == [pc |-> "idle", u |-> <<>>, interior |-> <<>>, Du |-> <<>>, res |-> <<>>]

NoDriver == [pc |-> "off", u |-> <<>>, iter |-> 0, probes |-> 0, jac |-> 0]

DefaultDepth == Arr([i \in Nodes |-> Lit(1, 2)])

(***************************************************************************)
(* Spec: one instance serving any sequence of calls                        *)
(***************************************************************************)
MaxCalls == 2

Init ==
    /\ \E c \in Kinds : \E d \in DepthProfiles :
          /\ (c = "IceStream" => d = DefaultDepth)
          /\ Construct(c, d)
    /\ drv = NoDriver
    /\ shared = FALSE
    /\ thr = [w \in Instances |-> Idle]

compute_pde_values ==
    /\ Len(held) < MaxCalls
    /\ \E u \in Guesses : \E scale \in Scales : CallPde(1, u, scale)
    /\ UNCHANGED <<kind, depth, Hf, drv, shared, thr>>

compute_pde_components ==
    /\ Len(held) < MaxCalls
    /\ kind = "LateralIceStream"
    /\ \E u \in Guesses : \E scale \in Scales : CallComponents(1, u, scale)
    /\ UNCHANGED <<kind, depth, Hf, drv, shared, thr>>

compute_jacobian ==
    /\ Len(held) < MaxCalls
    /\ \E u \in Guesses : CallJacobian(1, u, DefaultScale)
    /\ UNCHANGED <<kind, depth, Hf, drv, shared, thr>>

compute_numerical_jacobian ==
    /\ Len(held) < MaxCalls
    /\ \E u \in Guesses : CallNumericalJacobian(1, u)
    /\ UNCHANGED <<kind, depth, Hf, drv, shared, thr>>

Next ==
    \/ compute_pde_values
    \/ compute_pde_components
    \/ compute_jacobian
    \/ compute_numerical_jacobian

Spec == Init /\ [][Next]_vars

(***************************************************************************)
(* Properties of the single-instance runs                                  *)
(***************************************************************************)
Calls == 1..Len(held)

IsCall(k, op) == held[k].ok /\ held[k].op = op

\* C1: for both models and any u whose strain rate D.u exceeds 1e-3 in
\* magnitude at every node, the matrix compute_jacobian(u) returns agrees
\* with the finite-difference matrix of compute_numerical_jacobian(u) entry
\* by entry within a relative tolerance; agreement with a finite-difference
\* matrix, whose entries are all finite numbers, requires every entry of the
\* analytic matrix to be a finite number.
JacobianMatchesNumerical ==
    \A j \in Calls : \A k \in Calls :
        ( /\ IsCall(j, "jacobian")
          /\ IsCall(k, "numerical")
          /\ held[j].u = held[k].u
          /\ held[j].scale = held[k].scale
          /\ \A i \in Nodes : Abs(MatVec(D, held[j].u)[i]) > Lit(1, 1000) )
        => \A r \in 1..(N + 2) : \A c \in Nodes : IsFinite(held[j].snap[r][c])

\* C2: the vector a non-decomposed compute_pde_values call returned is never
\* changed by a later call on the same instance: after any further calls it
\* still holds exactly the values it had when it was returned.
ReturnedResidualKeepsItsValues ==
    \A k \in Calls : IsCall(k, "pde") => Deref(held[k].ref) = held[k].snap

\* a residual was returned, a later call overwrote self.F with other values,
\* and the returned vector is still what it was
ResidualOutlivesOverwrite ==
    /\ Len(held) >= 2
    /\ IsCall(1, "pde")
    /\ held[2].ok /\ held[2].op \in {"pde", "numerical"}
    /\ F[held[1].inst] # held[1].snap
    /\ Deref(held[1].ref) = held[1].snap

\* C3: for u of length N the non-decomposed residual has length N+2, entry N
\* (from 0) is boundary_value_scale * (D.u)[0] and entry N+1 is
\* boundary_value_scale * ((D.u)[N-1] - fs), whatever the scale argument and
\* the interior entries are.
BoundaryEntriesAreBoundaryConditions ==
    /\ \A k \in Calls :
          IsCall(k, "pde") =>
              /\ Len(held[k].snap) = N + 2
              /\ held[k].snap[N + 1] = FMul(boundary_value_scale, MatVec(D, held[k].u)[1])
              /\ held[k].snap[N + 2] =
                     FMul(boundary_value_scale, MatVec(D, held[k].u)[N] - fs)
    /\ \A j \in Calls : \A k \in Calls :
          (IsCall(j, "pde") /\ IsCall(k, "pde") /\ held[j].u = held[k].u) =>
              /\ held[j].snap[N + 1] = held[k].snap[N + 1]
              /\ held[j].snap[N + 2] = held[k].snap[N + 2]

\* the same u evaluated under two scales: the interiors differ, the calving
\* force is not zero
SameGuessTwoScales ==
    /\ Len(held) >= 2
    /\ IsCall(1, "pde") /\ IsCall(2, "pde")
    /\ held[1].u = held[2].u
    /\ held[1].scale # held[2].scale
    /\ \E i \in Nodes : held[1].snap[i] # held[2].snap[i]
    /\ fs # 0

\* C4: for the confined model the components of a decomposed call satisfy
\* membrane - basal - lateral + driving = the first N entries of the
\* non-decomposed residual on the same u and scale, whichever call came first.
ComponentsSumToResidual ==
    \A j \in Calls : \A k \in Calls :
        ( /\ IsCall(j, "components")
          /\ IsCall(k, "pde")
          /\ held[j].u = held[k].u
          /\ held[j].scale = held[k].scale )
        => \A i \in Nodes :
               held[j].snap.membrane[i] - held[j].snap.basal[i]
                   - held[j].snap.lateral[i] + held[j].snap.driving[i]
               = held[k].snap[i]

\* a decomposed call and a residual call on the same inputs, the residual
\* first, with drag that is not zero
ResidualThenComponents ==
    /\ Len(held) >= 2
    /\ IsCall(1, "pde") /\ IsCall(2, "components")
    /\ held[1].u = held[2].u
    /\ held[1].scale = held[2].scale
    /\ \E i \in Nodes : held[2].snap.basal[i] + held[2].snap.lateral[i] # 0

\* C6: for the confined model Hf[i] >= 0.01 at every node in every reachable
\* state: a node whose raw value h - (rho_water / rho_ice) * depth is negative
\* holds exactly 0.01, every other node holds its construction value, and no
\* call changes Hf.
FlotationHeightKeepsItsFloor ==
    kind = "LateralIceStream" =>
        \A i \in Nodes :
            /\ Hf[i] >= HfFloor
            /\ HfRaw(depth)[i] < 0 => Hf[i] = HfFloor
            /\ HfRaw(depth)[i] >= HfFloor => Hf[i] = HfRaw(depth)[i]

\* a profile with a node below flotation, after two evaluations
FlooredNodeAfterCalls ==
    /\ kind = "LateralIceStream"
    /\ \E i \in Nodes : HfRaw(depth)[i] < 0 /\ Hf[i] = HfFloor
    /\ Len(held) >= 2
    /\ held[1].ok /\ held[2].ok
    /\ held[1].op # held[2].op

\* the sign of a lattice value is that of v, or the value is zero
SignFollows(x, v) == (v > 0 => x >= 0) /\ (v < 0 => x <= 0) /\ (v = 0 => x = 0)

\* C7: for the confined model and any u, entries equal to zero included, the
\* decomposed basal and lateral drag are odd in u, basal(-u)[i] = -basal(u)[i]
\* and lateral(-u)[i] = -lateral(u)[i] at every node, and every drag entry has
\* the sign of u[i] or is zero.
DragIsOddInVelocity ==
    /\ \A k \in Calls :
          IsCall(k, "components") =>
              \A i \in Nodes :
                  /\ SignFollows(held[k].snap.basal[i], held[k].u[i])
                  /\ SignFollows(held[k].snap.lateral[i], held[k].u[i])
    /\ \A j \in Calls : \A k \in Calls :
          ( /\ IsCall(j, "components")
            /\ IsCall(k, "components")
            /\ held[j].u = Neg(held[k].u)
            /\ held[j].scale = held[k].scale )
          => \A i \in Nodes :
                 /\ held[j].snap.basal[i] = -held[k].snap.basal[i]
                 /\ held[j].snap.lateral[i] = -held[k].snap.lateral[i]

\* the drag of u and of -u, where u has a zero entry and entries with drag
DragOfGuessAndItsNegative ==
    /\ Len(held) >= 2
    /\ IsCall(1, "components") /\ IsCall(2, "components")
    /\ held[2].u = Neg(held[1].u)
    /\ held[1].scale = held[2].scale
    /\ \E i \in Nodes : held[1].u[i] = 0
    /\ \E i \in Nodes : held[1].snap.basal[i] # 0 /\ held[1].snap.lateral[i] # 0

\* C9: for both models a compute_pde_values or compute_jacobian call whose u
\* does not have length N fails with a dimension error: it returns no
\* residual and no Jacobian.
WrongLengthIsRejected ==
    \A k \in Calls :
        (held[k].op \in {"pde", "jacobian"} /\ Len(held[k].u) # N) =>
            ~held[k].ok /\ held[k].ref = NoRef /\ held[k].snap = <<>>

\* a residual call on a guess that is too short and a Jacobian call on one
\* that is too long, both refused, the buffers still as constructed
BothWrongLengthsRefused ==
    /\ Len(held) >= 2
    /\ held[1].op = "pde" /\ Len(held[1].u) < N /\ ~held[1].ok
    /\ held[2].op = "jacobian" /\ Len(held[2].u) > N /\ ~held[2].ok
    /\ F[1] = ZeroF /\ J[1] = ZeroJ

(***************************************************************************)
(* SpecPair: two instances built from the same profile and parameters,     *)
(* each serving its own sequence of calls                                  *)
(***************************************************************************)
MaxPairCalls == 3

\* the (u, scale) arguments the two instances are called with
PairInputs == {<<GuessA, DefaultScale>>, <<GuessB, Lit(1, 1)>>}

Untouched == UNCHANGED <<kind, depth, Hf, drv, shared, thr>>

either_compute_pde_values ==
    /\ Len(held) < MaxPairCalls
    /\ \E t \in Instances : \E arg \in PairInputs : CallPde(t, arg[1], arg[2])
    /\ Untouched

either_compute_pde_components ==
    /\ Len(held) < MaxPairCalls
    /\ kind = "LateralIceStream"
    /\ \E t \in Instances : \E arg \in PairInputs : CallComponents(t, arg[1], arg[2])
    /\ Untouched

either_compute_jacobian ==
    /\ Len(held) < MaxPairCalls
    /\ \E t \in Instances : \E arg \in PairInputs : CallJacobian(t, arg[1], arg[2])
    /\ Untouched

NextPair ==
    \/ either_compute_pde_values
    \/ either_compute_pde_components
    \/ either_compute_jacobian

SpecPair == Init /\ [][NextPair]_vars

\* C5: for both models compute_pde_values(u, scale) and compute_jacobian(u,
\* scale) depend only on u, scale and the construction-time configuration:
\* two calls with the same (u, scale), on either of two instances built alike
\* and after whatever residual, decomposed or Jacobian calls each has served,
\* return equal results.
ResultsDependOnArgumentsOnly ==
    \A j \in Calls : \A k \in Calls :
        ( /\ held[j].ok /\ held[k].ok
          /\ held[j].op \in {"pde", "jacobian"}
          /\ held[j].op = held[k].op
          /\ held[j].u = held[k].u
          /\ held[j].scale = held[k].scale )
        => held[j].snap = held[k].snap

\* instance 1 has served another evaluation with other arguments before it
\* repeats, on a buffer that is no longer zero, the call a fresh instance 2
\* has just answered
SameCallAfterDifferentHistories ==
    /\ Len(held) >= 3
    /\ held[1].inst = 1 /\ held[2].inst = 2 /\ held[3].inst = 1
    /\ held[1].ok /\ held[2].ok /\ held[3].ok
    /\ held[1].op = held[3].op
    /\ held[2].op = held[3].op
    /\ held[1].u # held[3].u /\ held[1].scale # held[3].scale
    /\ held[2].u = held[3].u /\ held[2].scale = held[3].scale
    /\ held[3].op = "pde"

(***************************************************************************)
(* SpecDriver: the documented Newton loop on one instance: residual(u),    *)
(* jacobian(u), solve, update u, repeat.  The solver is outside the        *)
(* source; its next guess is any other guess.  Between jacobian and solve  *)
(* the driver may probe the residual or the finite-difference Jacobian at  *)
(* other guesses.                                                          *)
(***************************************************************************)
MaxIter == 2

MaxProbes == 1

InitDriver ==
    /\ \E c \in Kinds : \E d \in DepthProfiles :
          /\ (c = "IceStream" => d = DefaultDepth)
          /\ Construct(c, d)
    /\ \E u \in ValidGuesses :
          drv = [pc |-> "residual", u |-> u, iter |-> 0, probes |-> 0, jac |-> 0]
    /\ shared = FALSE
    /\ thr = [w \in Instances |-> Idle]

DriverFrame == UNCHANGED <<kind, depth, Hf, shared, thr>>

driver_residual ==
    /\ drv.pc = "residual"
    /\ CallPde(1, drv.u, DefaultScale)
    /\ drv' = [drv EXCEPT !.pc = "jacobian"]
    /\ DriverFrame

driver_jacobian ==
    /\ drv.pc = "jacobian"
    /\ CallJacobian(1, drv.u, DefaultScale)
    /\ drv' = [drv EXCEPT !.pc = "solve", !.jac = Len(held')]
    /\ DriverFrame

driver_probe_residual ==
    /\ drv.pc = "solve"
    /\ drv.probes < MaxProbes
    /\ \E u \in ValidGuesses \ {drv.u} : \E scale \in Scales : CallPde(1, u, scale)
    /\ drv' = [drv EXCEPT !.probes = drv.probes + 1]
    /\ DriverFrame

driver_probe_numerical ==
    /\ drv.pc = "solve"
    /\ drv.probes < MaxProbes
    /\ \E u \in ValidGuesses : CallNumericalJacobian(1, u)
    /\ drv' = [drv EXCEPT !.probes = drv.probes + 1]
    /\ DriverFrame

\* the linear solve reads the held matrix and the residual
driver_solve ==
    /\ drv.pc = "solve"
    /\ drv' = [drv EXCEPT !.pc = "update"]
    /\ UNCHANGED <<F, J, heap, held>>
    /\ DriverFrame

driver_update ==
    /\ drv.pc = "update"
    /\ \E u \in ValidGuesses \ {drv.u} :
          drv' = [drv EXCEPT !.u = u,
                             !.iter = drv.iter + 1,
                             !.pc = IF drv.iter + 1 < MaxIter THEN "residual" ELSE "done"]
    /\ UNCHANGED <<F, J, heap, held>>
    /\ DriverFrame

NextDriver ==
    \/ driver_residual
    \/ driver_jacobian
    \/ driver_probe_residual
    \/ driver_probe_numerical
    \/ driver_solve
    \/ driver_update

SpecDriver == InitDriver /\ [][NextDriver]_vars

\* the latest successful compute_jacobian call of the history
LastJacobian ==
    CHOOSE k \in Calls :
        /\ IsCall(k, "jacobian")
        /\ \A j \in Calls : IsCall(j, "jacobian") => j <= k

\* C10: compute_jacobian returns the instance's own Jacobian buffer, not a
\* copy, so every matrix obtained from an earlier compute_jacobian call holds
\* the values of the latest one; in the documented loop the matrix the driver
\* holds at each solve step is nevertheless the Jacobian of its current guess
\* u, because compute_pde_values and compute_numerical_jacobian never write
\* the Jacobian buffer.
JacobianIsSharedYetCurrentAtSolve ==
    /\ \A k \in Calls :
          IsCall(k, "jacobian") =>
              /\ held[k].ref = [space |-> "J", idx |-> held[k].inst]
              /\ Deref(held[k].ref) = held[LastJacobian].snap
    /\ drv.pc = "solve" =>
          /\ IsCall(drv.jac, "jacobian")
          /\ held[drv.jac].u = drv.u
          /\ Deref(held[drv.jac].ref) = held[drv.jac].snap

\* second iteration, at the solve step, after a probe: the matrix obtained
\* in the first iteration no longer shows what it showed when it was returned
FirstMatrixOverwrittenAtSecondSolve ==
    /\ drv.pc = "solve"
    /\ drv.iter = 1
    /\ drv.probes > 0
    /\ \E k \in Calls :
          /\ IsCall(k, "jacobian")
          /\ k < drv.jac
          /\ Deref(held[k].ref) # held[k].snap
          /\ Deref(held[k].ref) = held[drv.jac].snap
    /\ held[Len(held)].op \in {"pde", "numerical"}

(***************************************************************************)
(* SpecWorkers: two workers inside compute_pde_values at the same time,    *)
(* each with its own guess, on one shared instance or on one instance      *)
(* each.  A worker's steps are the statements that touch self.F.           *)
(***************************************************************************)
InitWorkers ==
    /\ \E c \in Kinds : \E d \in DepthProfiles :
          /\ (c = "IceStream" => d = DefaultDepth)
          /\ Construct(c, d)
    /\ drv = NoDriver
    /\ shared \in BOOLEAN
    /\ thr = [w \in Instances |-> Idle]

\* the instance worker w evaluates on
InstanceOf(w) == IF shared THEN 1 ELSE w

WorkerFrame == UNCHANGED <<kind, depth, Hf, J, heap, held, drv, shared>>

\* Du, nu, membrane, the drag terms and Td: locals of the call
worker_enter ==
    /\ \E w \in Instances : \E u \in ValidGuesses :
          /\ thr[w].pc = "idle"
          /\ \A v \in Instances : thr[v].u # u
          /\ thr' = [thr EXCEPT ![w] =
                        [pc |-> "interior", u |-> u,
                         interior |-> Interior(u, MatVec(D, u), DefaultScale),
                         Du |-> MatVec(D, u), res |-> <<>>]]
    /\ UNCHANGED F
    /\ WorkerFrame

\* self.F[:-2] = ...
worker_write_interior ==
    /\ \E w \in Instances :
          /\ thr[w].pc = "interior"
          /\ F' = [F EXCEPT ![BufferOf(InstanceOf(w))] = SetInterior(@, thr[w].interior)]
          /\ thr' = [thr EXCEPT ![w].pc = "upstream"]
    /\ WorkerFrame

\* self.F[-2] = ...
worker_write_upstream ==
    /\ \E w \in Instances :
          /\ thr[w].pc = "upstream"
          /\ F' = [F EXCEPT ![BufferOf(InstanceOf(w))] =
                      SetAt(@, N + 1, BoundaryUpstream(thr[w].Du))]
          /\ thr' = [thr EXCEPT ![w].pc = "calving"]
    /\ WorkerFrame

\* self.F[-1] = ...
worker_write_calving ==
    /\ \E w \in Instances :
          /\ thr[w].pc = "calving"
          /\ F' = [F EXCEPT ![BufferOf(InstanceOf(w))] =
                      SetAt(@, N + 2, BoundaryCalving(thr[w].Du))]
          /\ thr' = [thr EXCEPT ![w].pc = "copy"]
    /\ WorkerFrame

\* return self.F.copy()
worker_return ==
    /\ \E w \in Instances :
          /\ thr[w].pc = "copy"
          /\ thr' = [thr EXCEPT ![w].pc = "done",
                                ![w].res = F[BufferOf(InstanceOf(w))]]
    /\ UNCHANGED F
    /\ WorkerFrame

NextWorkers ==
    \/ worker_enter
    \/ worker_write_interior
    \/ worker_write_upstream
    \/ worker_write_calving
    \/ worker_return

SpecWorkers == InitWorkers /\ [][NextWorkers]_vars

\* C8: the buffers of one instance are not safe to share across concurrent
\* evaluations: with one instance per worker every interleaving of the
\* buffer writes and the final copies of two compute_pde_values calls with
\* different guesses returns to each call the residual of its own guess
\* (while on a shared instance some interleaving returns a vector that is the
\* residual of neither guess).
OwnInstanceReturnsOwnResidual ==
    ~shared =>
        \A w \in Instances :
            thr[w].pc = "done" => thr[w].res = Residual(thr[w].u, DefaultScale)

\* both calls ran on one instance and one of them returned a vector that is
\* the residual of neither guess
SharedInstanceReturnsNeitherResidual ==
    /\ shared
    /\ \A w \in Instances : thr[w].pc = "done"
    /\ \E w \in Instances : \A v \in Instances :
          thr[w].res # Residual(thr[v].u, DefaultScale)

====
